---- MODULE Spec2Model ----
(***************************************************************************)
(* The knowledge ingestion pipeline of the Mastra starter template:        *)
(* seedVectorKnowledgeBase (agent/src/rag.ts), its module-load caller, and *)
(* the knowledge query of queryKnowledgeTool (mastra/tools/rag-tools.ts)   *)
(* and of the research-report workflow's first step; the thread-based      *)
(* knowledge base (seedKnowledgeBase of mastra.ts, add-knowledge); the     *)
(* unit conversion tools and convert-utc-to-timezone; the research-report  *)
(* workflow and the CLI's workflow command; loadPersona; the memory        *)
(* helpers createMemoryWithSemanticRecall and createAdvancedMemory.        *)
(*                                                                         *)
(* The vector store (PgVector / LibSQLVector), the embedding service and   *)
(* MDocument.chunk are libraries; they are modelled by their contract in   *)
(* spec.md section 4 (VectorQuery, CreateIndex, Upsert, Windows).          *)
(***************************************************************************)
EXTENDS Integers, Sequences, FiniteSets, TLC

(* ------------------------------ bounds -------------------------------- *)

\* How many times the knowledge directory is edited in one behaviour.
MaxEdits == 2

\* How many add-knowledge calls one behaviour has.
MaxAdds == 2

\* The largest magnitude of a value to convert, in thousandths.
MaxValue == 2500

\* The largest magnitude of a utcTimestamp passed to convert-utc-to-timezone.
MaxStamp == 3

\* Scaled stand-ins for defaultRAGConfig.chunking.maxSize (2048) and
\* .overlap (50): texts of the model are at most three characters long.
ModelMaxSize == 2
ModelOverlap == 1

\* How many lines a persona file has at most.
MaxLines == 5

(* ------------------------- program constants -------------------------- *)

\* defaultRAGConfig.embeddingModel.dimension
EmbeddingDimension == 1536

\* The minScore of the workflow's query step, 0.3, in tenths.
WorkflowMinScore == 3

(* ------------------------------ domains ------------------------------- *)

\* The seeding invocations: the module-load background call (setImmediate)
\* and one explicit call of the exported function.
Procs == {"moduleLoad", "explicit"}

\* glob.sync enumerates the markdown files of an unchanged directory in a
\* stable order.
FileOrder == <<"a.md", "b.md">>

FileNames == {FileOrder[i] : i \in 1..Len(FileOrder)}

\* File contents: sequences of characters.
Texts == {<<1>>, <<1, 2, 3>>}

Absent == [present |-> FALSE, text |-> <<>>]

File(t) == [present |-> TRUE, text |-> t]

DirEntries == {Absent} \cup {File(t) : t \in Texts}

Range(s) == {s[i] : i \in 1..Len(s)}

(* ------------------------------ chunker ------------------------------- *)

\* Windows that abut: each begins where the previous one ended.
RECURSIVE WindowsAbutting(_, _, _)
WindowsAbutting(text, maxSize, overlap) ==
    IF Len(text) <= maxSize
    THEN <<text>>
    ELSE <<SubSeq(text, 1, maxSize)>>
         \o WindowsAbutting(SubSeq(text, maxSize + 1, Len(text)), maxSize, overlap)

\* doc.chunk({strategy: "recursive", maxSize, overlap}) on text without
\* structure: character windows of at most maxSize, each after the first
\* beginning overlap characters before the end of the previous one.
RECURSIVE Windows(_, _, _)
Windows(text, maxSize, overlap) ==
    IF Len(text) <= maxSize
    THEN <<text>>
    ELSE <<SubSeq(text, 1, maxSize)>>
         \o Windows(SubSeq(text, maxSize - overlap + 1, Len(text)), maxSize, overlap)

\* Every chunk text the model's files can yield.
Contents == UNION {Range(Windows(t, ModelMaxSize, ModelOverlap)) : t \in Texts}

\* defaultRAGConfig.chunking
defaultChunking == [strategy |-> "recursive", maxSize |-> ModelMaxSize, overlap |-> ModelOverlap]

\* config.chunking of a call without overrides: no field.
NoOverride == [f \in {} |-> 0]

\* The config.chunking a caller can pass: nothing, a larger maxSize, or
\* another strategy.
ChunkingOverrides ==
    {NoOverride,
     [f \in {"maxSize"} |-> ModelMaxSize + 1],
     [f \in {"strategy"} |-> "markdown"]}

\* {...defaultRAGConfig.chunking, ...config.chunking}
chunkingConfig(override) ==
    [f \in DOMAIN defaultChunking |->
        IF f \in DOMAIN override THEN override[f] ELSE defaultChunking[f]]

\* Every chunk text the files can yield under some caller's configuration.
AllContents ==
    UNION {Range(Windows(t, chunkingConfig(o).maxSize, chunkingConfig(o).overlap))
           : t \in Texts, o \in ChunkingOverrides}

\* The module-load call passes no config; an explicit caller may.
ConfigsOf(p) == IF p = "moduleLoad" THEN {NoOverride} ELSE ChunkingOverrides

\* The argument of doc.chunk: the strategy is the literal "recursive",
\* maxSize and overlap are chunkingConfig's.
ChunkArgs(cfg) == [strategy |-> "recursive", maxSize |-> cfg.maxSize, overlap |-> cfg.overlap]

(* ------------------------------- loader ------------------------------- *)

\* getKnowledgeDocuments: one document per markdown file, in glob order,
\* text the file's content and source its path.
RECURSIVE LoadFrom(_, _)
LoadFrom(d, i) ==
    IF i > Len(FileOrder)
    THEN <<>>
    ELSE (IF d[FileOrder[i]].present
          THEN <<[text |-> d[FileOrder[i]].text, source |-> FileOrder[i]]>>
          ELSE <<>>)
         \o LoadFrom(d, i + 1)

getKnowledgeDocuments(d) == LoadFrom(d, 1)

\* One document's chunks: each keeps the document's metadata.source.
ChunkDoc(doc, cfg) ==
    LET w == Windows(doc.text, ChunkArgs(cfg).maxSize, ChunkArgs(cfg).overlap)
    IN  [i \in 1..Len(w) |-> [text |-> w[i], source |-> doc.source]]

\* (await Promise.all(documents.map(doc => doc.chunk(...)))).flat()
RECURSIVE ChunkAll(_, _)
ChunkAll(docs, cfg) ==
    IF docs = <<>>
    THEN <<>>
    ELSE ChunkDoc(Head(docs), cfg) \o ChunkAll(Tail(docs), cfg)

(* ------------------------------ embedder ------------------------------ *)

\* The embedding model maps a text to one vector of the model's width; the
\* vector is named by the text it embeds.
EmbedText(text) == [of |-> text, dim |-> EmbeddingDimension]

\* generateEmbedding: embedMany over chunk.text, order-preserving.
generateEmbedding(cs) == [i \in 1..Len(cs) |-> EmbedText(cs[i].text)]

(* ---------------------------- vector index ---------------------------- *)

\* `chunk-${index}` with the array index of the embedding (0-based).
ChunkId(index) == <<"chunk", index>>

\* Cosine similarities, in tenths.
Scores == {-5, 0, 5}

\* A query vector is known by its similarity to the vector of each content.
Profiles == [Contents -> Scores]

\* The guard's sample vector, by its similarity to every stored content.
SampleProfiles == [AllContents -> Scores]

\* A query without minScore keeps every record.
NoMinScore == -10

NoFilter == "none"

\* A metadata filter {source: f} is written as the file name f.
FilterOK(filter, r) == filter = NoFilter \/ r.metadata.source = filter

Better(prof, r, o) ==
    \/ prof[r.metadata.content] > prof[o.metadata.content]
    \/ /\ prof[r.metadata.content] = prof[o.metadata.content]
       /\ r.id[2] <= o.id[2]

RECURSIVE Ranked(_, _, _)
Ranked(S, prof, k) ==
    IF S = {} \/ k = 0
    THEN <<>>
    ELSE LET best == CHOOSE r \in S : \A o \in S : Better(prof, r, o)
         IN  <<[id |-> best.id, score |-> prof[best.metadata.content],
                metadata |-> best.metadata]>>
             \o Ranked(S \ {best}, prof, k - 1)

\* vector.query on an existing index: up to topK records by descending
\* similarity, restricted to score >= minScore and to the filter.
VectorQuery(records, prof, topK, minScore, filter) ==
    Ranked({r \in records : prof[r.metadata.content] >= minScore /\ FilterOK(filter, r)},
           prof, topK)

\* vector.upsert: insert or replace by id.
Upsert(records, new) ==
    {r \in records : \A n \in new : n.id # r.id} \cup new

NoIndex == [exists |-> FALSE, dimension |-> 0, records |-> {}]

\* vector.createIndex: creates the index, and is a no-op when an index of
\* that name and dimension exists.
CreateIndex(idx, dimension) ==
    IF idx.exists THEN idx
    ELSE [exists |-> TRUE, dimension |-> dimension, records |-> {}]

\* Records numbered from 1.
BuildRecordsOneBased(embs, cs) ==
    {[id |-> <<"chunk", i>>,
      vector |-> embs[i],
      metadata |-> [content |-> cs[i].text,
                    source |-> IF cs[i].source = "" THEN "unknown" ELSE cs[i].source]]
     : i \in 1..Len(embs)}

\* records = embeddings.map((embedding, index) => ({id, vector, metadata}))
BuildRecords(embs, cs) ==
    {[id |-> ChunkId(i - 1),
      vector |-> embs[i],
      metadata |-> [content |-> cs[i].text,
                    source |-> IF cs[i].source = "" THEN "unknown" ELSE cs[i].source]]
     : i \in 1..Len(embs)}

(* --------------------------- knowledge query -------------------------- *)

\* topK: z.number().int().min(1).max(50)
TopKs == {1, 2}

\* minScore: z.number().min(0).max(1), in tenths.
MinScores == {0, 3}

\* filter: absent, the empty string, a string that is not JSON, or the JSON
\* of {source: f}.
FilterAbsent == "absent"

FilterEmpty == ""

FilterBad == "{bad"

FilterInputs == {FilterAbsent, FilterEmpty, FilterBad, "a.md"}

\* if (filter): undefined and the empty string are falsy.
FilterGiven(filter) == filter \notin {FilterAbsent, FilterEmpty}

\* A parse that never raises.
FilterParsesAnything(filter) == TRUE

\* if (filter) { parsedFilter = JSON.parse(filter) }: whether it returns
\* rather than raising.
FilterParses(filter) == FilterGiven(filter) => filter # FilterBad

parsedFilter(filter) == IF FilterGiven(filter) THEN filter ELSE NoFilter

\* A fallback that drops the threshold altogether.
RelaxedNoThreshold == NoMinScore

\* The fallback's threshold: queryOnce(0).
RelaxedMinScore == 0

ToolInputs ==
    [kind : {"tool"}, topK : TopKs, filter : FilterInputs, minScore : MinScores]

\* The workflow step queries with topK = maxResults, minScore 0.3, no filter.
WorkflowInputs ==
    [kind : {"workflow"}, topK : TopKs, filter : {FilterAbsent}, minScore : {WorkflowMinScore}]

NoInput == [kind |-> "none", topK |-> 1, filter |-> FilterAbsent, minScore |-> 0]

NoEmbedding == [c \in Contents |-> 0]

\* results.map(r => ({content, score: r.score ?? 0, metadata: r.metadata}))
ToolOutput(res) ==
    [i \in 1..Len(res) |->
        [content |-> res[i].metadata.content, score |-> res[i].score,
         metadata |-> res[i].metadata]]

\* The workflow step's output: sourceCount and the findings' contents.
StepOutput(res) ==
    [sourceCount |-> Len(res),
     findings |-> [i \in 1..Len(res) |-> res[i].metadata.content]]

(* ----------------------- thread-based knowledge ---------------------- *)

\* KNOWLEDGE_BASE_THREAD_ID
KNOWLEDGE_BASE_THREAD_ID == "general-knowledge-base"

\* The topics of KNOWLEDGE_DOCUMENTS, in order.
KNOWLEDGE_DOCUMENTS ==
    <<"Mastra Framework", "AI Agent Best Practices", "RAG Implementation",
      "TypeScript Development", "Vector Databases">>

\* topic.toLowerCase().replace(/[^a-z0-9]+/g, "-").replace(/^-+|-+$/g, "")
\* of each topic of KNOWLEDGE_DOCUMENTS.
Slug(topic) ==
    CASE topic = "Mastra Framework"        -> "mastra-framework"
      [] topic = "AI Agent Best Practices" -> "ai-agent-best-practices"
      [] topic = "RAG Implementation"      -> "rag-implementation"
      [] topic = "TypeScript Development"  -> "typescript-development"
      [] topic = "Vector Databases"        -> "vector-databases"

\* `knowledge-${slug}`: an id is a prefix and what follows it.
safeId(topic) == <<"knowledge", Slug(topic)>>

\* `Topic: ${topic}\n\n${content}`
TopicContent(topic, content) == [topic |-> topic, content |-> content]

\* The content of a knowledge document: a text, named by its topic.
DocContent(topic) == <<"text of", topic>>

\* The message seedKnowledgeBase saves for a document.
SeedMessage(topic) ==
    [id |-> safeId(topic), threadId |-> KNOWLEDGE_BASE_THREAD_ID, role |-> "system",
     content |-> TopicContent(topic, DocContent(topic))]

\* What an agent passes to add-knowledge.
AddTopics == {"Deployment", "RAG Implementation"}

AddContents == {<<"text", "Deploy with Docker">>, <<"text", "Use pgvector">>}

\* The id the memory gives the n-th message saved without one.
GeneratedId(n) == <<"generated", CASE n = 1 -> "1" [] n = 2 -> "2" [] n = 3 -> "3" [] OTHER -> "4">>

NoStorage == [threads |-> {}, messages |-> {}]

\* storage.saveThread: insert or replace by id.
SaveThread(st, id) == [st EXCEPT !.threads = @ \cup {id}]

\* storage.saveMessage / memory.saveMessages: insert or replace by id.
SaveMessage(st, msg) ==
    [st EXCEPT !.messages = {x \in @ : x.id # msg.id} \cup {msg}]

NoKRun ==
    [found        |-> FALSE,   \* listThreads returned the knowledge thread
     saveThreads  |-> 0,       \* saveThread calls completed
     saveMessages |-> 0,       \* saveMessage calls completed
     failed       |-> FALSE,   \* the catch block ran
     ended        |-> FALSE]   \* the function has returned

\* What makes a call fail: the agent context has no memory, or
\* agent.memory.saveMessages rejects.
AddFailures ==
    {"This tool requires an agent with memory configured", "saveMessages rejected"}

NoAdd ==
    [success |-> FALSE, called |-> FALSE, outcome |-> "none",
     message |-> <<"none", "none">>]

(* --------------------------- unit conversion -------------------------- *)

\* Numbers are written in thousandths: 1.5 is 1500.
Thousandths == 1000

\* Math.round(num / den) for den > 0: the nearest integer, a half upwards.
MathRound(num, den) == (2 * num + den) \div (2 * den)

\* Math.round(x * 100) / 100 of x = num / den thousandths, in thousandths.
RoundTo2(num, den) == 10 * MathRound(num, den * 10)

\* The factors of the switch statements as fractions in lowest terms:
\* 1.60934, 0.453592, 28.3495, 3.78541, 0.3048, 2.54, 0.9144.
Factor ==
    [miles   |-> <<80467, 50000>>,  pounds |-> <<56699, 125000>>,
     ounces  |-> <<56699, 2000>>,   gallons |-> <<378541, 100000>>,
     feet    |-> <<381, 1250>>,     inches |-> <<127, 50>>,
     yards   |-> <<1143, 1250>>]

ImperialUnits ==
    {"fahrenheit", "miles", "pounds", "ounces", "gallons", "feet", "inches", "yards"}

MetricUnits ==
    {"celsius", "kilometers", "kilograms", "grams", "liters", "meters", "centimeters"}

\* A to-imperial conversion of celsius without the offset of 32.
convertUnitsToImperialNoOffset(value, unit) ==
    CASE unit = "celsius" ->
            [convertedValue |-> RoundTo2(value * 9, 5), convertedUnit |-> "fahrenheit"]
      [] unit = "kilometers" ->
            [convertedValue |-> RoundTo2(value * Factor.miles[2], Factor.miles[1]),
             convertedUnit |-> "miles"]
      [] unit = "kilograms" ->
            [convertedValue |-> RoundTo2(value * Factor.pounds[2], Factor.pounds[1]),
             convertedUnit |-> "pounds"]
      [] unit = "grams" ->
            [convertedValue |-> RoundTo2(value * Factor.ounces[2], Factor.ounces[1]),
             convertedUnit |-> "ounces"]
      [] unit = "liters" ->
            [convertedValue |-> RoundTo2(value * Factor.gallons[2], Factor.gallons[1]),
             convertedUnit |-> "gallons"]
      [] unit = "meters" ->
            [convertedValue |-> RoundTo2(value * Factor.feet[2], Factor.feet[1]),
             convertedUnit |-> "feet"]
      [] unit = "centimeters" ->
            [convertedValue |-> RoundTo2(value * Factor.inches[2], Factor.inches[1]),
             convertedUnit |-> "inches"]

\* convertUnitsToMetricTool.execute: value and unit to convertedValue and
\* convertedUnit.
convertUnitsToMetric(value, unit) ==
    CASE unit = "fahrenheit" ->
            [convertedValue |-> RoundTo2((value - 32 * Thousandths) * 5, 9),
             convertedUnit |-> "celsius"]
      [] unit = "miles" ->
            [convertedValue |-> RoundTo2(value * Factor.miles[1], Factor.miles[2]),
             convertedUnit |-> "kilometers"]
      [] unit = "pounds" ->
            [convertedValue |-> RoundTo2(value * Factor.pounds[1], Factor.pounds[2]),
             convertedUnit |-> "kilograms"]
      [] unit = "ounces" ->
            [convertedValue |-> RoundTo2(value * Factor.ounces[1], Factor.ounces[2]),
             convertedUnit |-> "grams"]
      [] unit = "gallons" ->
            [convertedValue |-> RoundTo2(value * Factor.gallons[1], Factor.gallons[2]),
             convertedUnit |-> "liters"]
      [] unit = "feet" ->
            [convertedValue |-> RoundTo2(value * Factor.feet[1], Factor.feet[2]),
             convertedUnit |-> "meters"]
      [] unit = "inches" ->
            [convertedValue |-> RoundTo2(value * Factor.inches[1], Factor.inches[2]),
             convertedUnit |-> "centimeters"]
      [] unit = "yards" ->
            [convertedValue |-> RoundTo2(value * Factor.yards[1], Factor.yards[2]),
             convertedUnit |-> "meters"]

\* convertUnitsToImperialTool.execute
convertUnitsToImperial(value, unit) ==
    CASE unit = "celsius" ->
            [convertedValue |-> RoundTo2(value * 9 + 32 * Thousandths * 5, 5),
             convertedUnit |-> "fahrenheit"]
      [] unit = "kilometers" ->
            [convertedValue |-> RoundTo2(value * Factor.miles[2], Factor.miles[1]),
             convertedUnit |-> "miles"]
      [] unit = "kilograms" ->
            [convertedValue |-> RoundTo2(value * Factor.pounds[2], Factor.pounds[1]),
             convertedUnit |-> "pounds"]
      [] unit = "grams" ->
            [convertedValue |-> RoundTo2(value * Factor.ounces[2], Factor.ounces[1]),
             convertedUnit |-> "ounces"]
      [] unit = "liters" ->
            [convertedValue |-> RoundTo2(value * Factor.gallons[2], Factor.gallons[1]),
             convertedUnit |-> "gallons"]
      [] unit = "meters" ->
            [convertedValue |-> RoundTo2(value * Factor.feet[2], Factor.feet[1]),
             convertedUnit |-> "feet"]
      [] unit = "centimeters" ->
            [convertedValue |-> RoundTo2(value * Factor.inches[2], Factor.inches[1]),
             convertedUnit |-> "inches"]

\* A tool's execute, by the tool's name.
ExecuteTool(tool, value, unit) ==
    IF tool = "metric" THEN convertUnitsToMetric(value, unit)
    ELSE convertUnitsToImperial(value, unit)

UnitsOf(tool) == IF tool = "metric" THEN ImperialUnits ELSE MetricUnits

OtherTool(tool) == IF tool = "metric" THEN "imperial" ELSE "metric"

\* The values to convert: every thousandth between -MaxValue and MaxValue.
Values == (0 - MaxValue)..MaxValue

NoConv ==
    [stage |-> "idle", tool |-> "none", unit |-> "none", value |-> 0,
     forth |-> 0, forthUnit |-> "none", back |-> 0, backUnit |-> "none"]

(* ------------------------------ time tools --------------------------- *)

\* utcTimestamp: z.number().optional(), milliseconds since the epoch.
Stamps == (0 - MaxStamp)..MaxStamp

\* What new Date() can read from the clock during a call.
Nows == {MaxStamp + 1, MaxStamp + 2, MaxStamp + 3}

\* timezone: z.string().default("local")
Timezones == {"local", "America/New_York", "Europe/Copenhagen", "Invalid/Timezone"}

\* Intl.DateTimeFormat().resolvedOptions().timeZone
SystemTimezone == "Europe/Copenhagen"

TzInputs ==
    [provided : {TRUE}, utcTimestamp : Stamps, timezone : Timezones]
    \cup [provided : {FALSE}, utcTimestamp : {0}, timezone : Timezones]

\* utcTimestamp ? new Date(utcTimestamp) : new Date(): undefined and 0 are
\* falsy (the schema admits no NaN).
DateOf(in, now) == IF in.provided /\ in.utcTimestamp # 0 THEN in.utcTimestamp ELSE now

NoTzc == [stage |-> "idle", provided |-> FALSE, utcTimestamp |-> 0, timezone |-> "local",
          now |-> 0, date |-> 0, tz |-> "none", outcome |-> "none"]

(* ---------------------- research-report workflow --------------------- *)

\* The ids of the steps, in the order of the .then chain.
StepIds == <<"query-knowledge-base", "get-metadata", "synthesize-report">>

\* The workflow state of a run that has set nothing.
NoState == [k \in {} |-> 0]

\* {...state, key: value}
Spread(state, key, value) ==
    [k \in DOMAIN state \cup {key} |-> IF k = key THEN value ELSE state[k]]

\* results.length of the step's vector query.
SourceCounts == {0, 1, 2}

NoWf ==
    [pc |-> "idle", state |-> NoState, sets |-> <<>>, trace |-> <<>>,
     sourceCount |-> 0, status |-> "none"]

(* ------------------------ the CLI's workflow command ------------------ *)

\* An option of the command line: given or not, and its string.
NotGiven == [given |-> FALSE, value |-> ""]

Given(s) == [given |-> TRUE, value |-> s]

\* if (options.x): undefined and the empty string are falsy.
Truthy(opt) == opt.given /\ opt.value # ""

TopicOptions == {NotGiven, Given(""), Given("graviton wave theory")}

\* --max-results has the default "3": the option is always a string.
MaxResultsOptions == {"3", "5", "many"}

InputOptions ==
    {NotGiven, Given(""), Given("{topic: oops"), Given("{}"),
     Given("{\"topic\": \"BioSynth Corporation\", \"maxResults\": 3}")}

WorkflowNames == {"researchReport", "noSuchWorkflow"}

\* Number values that are not integers of the model.
NaN == 0 - 1

Undefined == 0 - 2

\* parseInt(s, 10)
parseInt(s) ==
    CASE s = "3" -> 3
      [] s = "5" -> 5
      [] OTHER -> NaN

\* Whether JSON.parse(s) returns rather than raising a SyntaxError.
JsonValid(s) ==
    s \in {"{}", "{\"topic\": \"BioSynth Corporation\", \"maxResults\": 3}"}

\* JSON.parse(s) of a valid s: the object's topic and maxResults.
JsonParse(s) ==
    IF s = "{}" THEN [topic |-> "undefined", maxResults |-> Undefined]
    ELSE [topic |-> "BioSynth Corporation", maxResults |-> 3]

NoInputData == [topic |-> "undefined", maxResults |-> Undefined]

NoCli ==
    [stage |-> "idle", name |-> "none", topic |-> NotGiven, maxResults |-> "3",
     input |-> NotGiven, inputData |-> NoInputData, source |-> "none",
     exitCode |-> Undefined, runsCreated |-> 0, runsStarted |-> 0]

(* ------------------------------ loadPersona -------------------------- *)

\* The lines a persona file is written with. text is what follows the
\* colon, or the line without its indentation.
PersonaLines ==
    {[kind |-> "keyValue", key |-> "name", text |-> "'Default'"],
     [kind |-> "keyValue", key |-> "tone", text |-> "professional"],
     [kind |-> "keyValue", key |-> "verbosity", text |-> "balanced"],
     [kind |-> "block", key |-> "systemPrompt", text |-> "|"],
     [kind |-> "indented", key |-> "", text |-> "You are a helpful assistant."],
     [kind |-> "comment", key |-> "", text |-> "# persona"],
     [kind |-> "blank", key |-> "", text |-> ""]}

\* The files: every sequence of at most MaxLines of these lines.
PersonaFiles == UNION {[1..n -> PersonaLines] : n \in 0..MaxLines}

\* line.trim().startsWith("#") || !line.trim()
IsSkipped(line) == line.kind \in {"comment", "blank"}

\* line.includes("|")
HasPipe(line) == line.kind = "block"

\* line.startsWith("    ")
IsIndented(line) == line.kind = "indented"

\* const [key, ...valueParts] = line.split(":"): key && valueParts.length > 0
HasKeyAndValue(line) == line.kind \in {"keyValue", "block"}

\* value.trim().replace(/['"]/g, "")
Unquote(text) == IF text = "'Default'" THEN "Default" ELSE text

\* persona[key] = value; a value is the sequence of its lines.
SetKey(persona, key, value) ==
    [k \in DOMAIN persona \cup {key} |-> IF k = key THEN value ELSE persona[k]]

\* The parser's variables before the first line.
ParserStart ==
    [persona |-> [k \in {} |-> <<>>], currentKey |-> "", multilineValue |-> <<>>,
     inMultiline |-> FALSE]

\* One turn of the loop over the lines.
ParseLine(st, line) ==
    IF IsSkipped(line) THEN st
    ELSE IF HasPipe(line) THEN
        [st EXCEPT !.currentKey = line.key, !.inMultiline = TRUE, !.multilineValue = <<>>]
    ELSE IF st.inMultiline THEN
        IF IsIndented(line)
        THEN [st EXCEPT !.multilineValue = Append(@, line.text)]
        ELSE [st EXCEPT !.persona = SetKey(@, st.currentKey, st.multilineValue),
                        !.inMultiline = FALSE]
    ELSE IF HasKeyAndValue(line)
        THEN [st EXCEPT !.persona = SetKey(@, line.key, <<Unquote(line.text)>>)]
        ELSE st

RECURSIVE ParseLines(_, _)
ParseLines(st, lines) ==
    IF lines = <<>> THEN st ELSE ParseLines(ParseLine(st, Head(lines)), Tail(lines))

\* The object the parser has built after the loop and the closing
\* if (inMultiline).
ParsePersona(lines) ==
    LET st == ParseLines(ParserStart, lines)
    IN  IF st.inMultiline THEN SetKey(st.persona, st.currentKey, st.multilineValue)
        ELSE st.persona

PersonaFields == {"name", "tone", "verbosity", "systemPrompt"}

\* Whether PersonaSchema.parse accepts the object: the four fields are
\* strings (every value the parser stores is a string).
PersonaSchemaOK(persona) == PersonaFields \subseteq DOMAIN persona

\* The fallback of the catch block.
DefaultPersona ==
    [k \in PersonaFields |->
        CASE k = "name" -> <<"Default">>
          [] k = "tone" -> <<"professional">>
          [] k = "verbosity" -> <<"balanced">>
          [] OTHER -> <<"You are a helpful AI assistant.">>]

\* A loadPersona that returns what the parser built, unvalidated.
loadPersonaUnvalidated(readable, lines) ==
    IF ~readable THEN DefaultPersona ELSE ParsePersona(lines)

\* loadPersona: the validated object (z.object keeps the schema's fields
\* only), or the default persona when reading or validating raised.
loadPersona(readable, lines) ==
    IF ~readable THEN DefaultPersona
    ELSE LET persona == ParsePersona(lines)
         IN  IF PersonaSchemaOK(persona)
             THEN [k \in PersonaFields |-> persona[k]]
             ELSE DefaultPersona

PersonaNames == {"default", "concise"}

NoPers ==
    [stage |-> "idle", personaName |-> "default", readable |-> FALSE, lines |-> <<>>,
     parsed |-> [k \in {} |-> <<>>], result |-> DefaultPersona]

(* ---------------------------- memory helpers ------------------------- *)

\* {...a, ...b}
ObjectSpread(a, b) ==
    [k \in DOMAIN a \cup DOMAIN b |-> IF k \in DOMAIN b THEN b[k] ELSE a[k]]

\* The values a caller passes for the fields of semanticRecall; minScore in
\* hundredths.
RecallValues == [topK |-> {8, 12}, messageRange |-> {3}, minScore |-> {65, 70}]

\* The semanticRecall objects a caller passes: any of topK, messageRange
\* and minScore, each present or not.
RecallObjects ==
    UNION {{f \in [keys -> {3, 8, 12, 65, 70}] : \A k \in keys : f[k] \in RecallValues[k]} :
              keys \in SUBSET {"topK", "messageRange", "minScore"}}

\* options.semanticRecall: not passed, a boolean, or an object.
RecallOptions ==
    {[given |-> FALSE, object |-> FALSE, enabled |-> FALSE, fields |-> [k \in {} |-> 0]]}
    \cup [given : {TRUE}, object : {FALSE}, enabled : BOOLEAN, fields : {[k \in {} |-> 0]}]
    \cup [given : {TRUE}, object : {TRUE}, enabled : {TRUE}, fields : RecallObjects]

\* options.lastMessages: not passed (Undefined) or a number.
LastMessagesOptions == {Undefined, 30, 40}

MemoryHelpers == {"createMemoryWithSemanticRecall", "createAdvancedMemory"}

\* The semanticRecall literal of each helper; minScore in hundredths.
RecallDefaults(helper) ==
    IF helper = "createMemoryWithSemanticRecall"
    THEN [topK |-> 5, messageRange |-> 1, minScore |-> 50]
    ELSE [topK |-> 10, messageRange |-> 2, minScore |-> 60]

\* The lastMessages each helper starts from.
LastMessagesDefault(helper) ==
    IF helper = "createMemoryWithSemanticRecall" THEN 20 ELSE 50

\* semanticRecall: {defaults, ...(typeof options?.semanticRecall === "object"
\* && options?.semanticRecall || {})}
RecallLiteral(helper, recall) ==
    IF recall.given /\ recall.object
    THEN [given |-> TRUE, object |-> TRUE, enabled |-> TRUE,
          fields |-> ObjectSpread(RecallDefaults(helper), recall.fields)]
    ELSE [given |-> TRUE, object |-> TRUE, enabled |-> TRUE,
          fields |-> RecallDefaults(helper)]

\* The options passed to new Memory: {...defaults, semanticRecall: {...},
\* ...options}; a key of options replaces the key before it.
MemoryOptions(helper, lastMessages, recall) ==
    [lastMessages |-> IF lastMessages = Undefined THEN LastMessagesDefault(helper)
                      ELSE lastMessages,
     semanticRecall |-> IF recall.given THEN recall
                        ELSE RecallLiteral(helper, recall)]

NoMem ==
    [stage |-> "idle", helper |-> "none", lastMessages |-> Undefined,
     recall |-> [given |-> FALSE, object |-> FALSE, enabled |-> FALSE,
                 fields |-> [k \in {} |-> 0]],
     options |-> [lastMessages |-> Undefined,
                  semanticRecall |-> [given |-> FALSE, object |-> FALSE, enabled |-> FALSE,
                                      fields |-> [k \in {} |-> 0]]]]

(* ------------------------------- state -------------------------------- *)

VARIABLES
    dir,          \* the knowledge directory: file name -> entry
    edits,        \* edits of the directory so far
    index,        \* the knowledge index of the vector store
    pc,           \* each seeding invocation's position
    documents,    \* seedVectorKnowledgeBase's locals
    chunks,
    embeddings,
    run,          \* what each invocation has done so far (history)
    seededOnce,   \* the records left by the first invocation that returned
                  \* normally since the directory was last edited (history)
    added,        \* the files added to the directory so far (history)
    qpc,          \* the knowledge query's position
    qInput,       \* its caller and input
    embedding,    \* the query text's embedding
    queryLog,     \* the vector queries it has issued (history)
    results,      \* its local variable results
    qOutcome,     \* none | returned | threw
    qError,       \* what a call that threw raised
    storage,      \* the message store: its threads and messages
    kpc,          \* seedKnowledgeBase's position
    kdoc,         \* how many knowledge documents its loop has saved
    krun,         \* what the current seedKnowledgeBase run has done (history)
    adds,         \* add-knowledge calls so far
    lastAdd,      \* what the last add-knowledge call returned
    conv,         \* a unit conversion and its way back
    tzc,          \* a convert-utc-to-timezone call
    wf,           \* the run of the research-report workflow
    cli,          \* the CLI's workflow command
    pers,         \* a loadPersona call
    mem           \* a call of a memory helper

seedVars == <<dir, edits, index, pc, documents, chunks, embeddings, run, seededOnce, added>>

queryVars == <<qpc, qInput, embedding, queryLog, results, qOutcome, qError>>

memVars == <<storage, kpc, kdoc, krun, adds, lastAdd>>

appVars == <<wf, cli, pers, mem>>

toolVars == <<memVars, conv, tzc, appVars>>

vars == <<seedVars, queryVars, toolVars>>

NoRun ==
    [startRecords |-> {},      \* the index's records when it was invoked
     guard        |-> "none",  \* none | empty | seeded | noindex | error
     guardExists  |-> FALSE,   \* the index existed when the guard raised
     failedAt     |-> "none",  \* the step that raised
     creates      |-> 0,       \* createIndex calls completed
     upserts      |-> 0,       \* upsert calls completed
     logged       |-> FALSE,   \* logger.error in the catch block ran
     outcome      |-> "none",  \* none | returned | threw
     caught       |-> FALSE,   \* the module-load .catch handler ran
     stale        |-> FALSE,   \* the directory changed since it was invoked
     afterEmpty   |-> FALSE,   \* its previous run found no documents
     config       |-> NoOverride, \* the config.chunking it was called with
     trace        |-> <<>>,    \* the steps it has issued, in order
     embedCalls   |-> 0,       \* calls of the embedding service (embedMany)
     chunkArgs    |-> <<>>,    \* the arguments of each doc.chunk call
     chunked      |-> <<>>,    \* the chunks it embedded
     vectors      |-> <<>>,    \* the vectors the embedder returned for them
     createdDim   |-> 0,       \* the dimension it passed to createIndex
     upserted     |-> {}]      \* the records of its upsert call

NoSeed == [set |-> FALSE, records |-> {}]

\* The run r returned at "No knowledge documents found to seed".
FoundNone(r) == r.outcome = "returned" /\ r.trace = <<"guard", "load">>

Init ==
    /\ dir \in [FileNames -> DirEntries]
    /\ edits = 0
    /\ index = NoIndex
    /\ pc = [p \in Procs |-> "idle"]
    /\ documents = [p \in Procs |-> <<>>]
    /\ chunks = [p \in Procs |-> <<>>]
    /\ embeddings = [p \in Procs |-> <<>>]
    /\ run = [p \in Procs |-> NoRun]
    /\ seededOnce = NoSeed
    /\ added = {}
    /\ qpc = "idle"
    /\ qInput = NoInput
    /\ embedding = NoEmbedding
    /\ queryLog = <<>>
    /\ results = <<>>
    /\ qOutcome = "none"
    /\ qError = "none"
    /\ storage = NoStorage
    /\ kpc = "idle"
    /\ kdoc = 0
    /\ krun = NoKRun
    /\ adds = 0
    /\ lastAdd = NoAdd
    /\ conv = NoConv
    /\ tzc = NoTzc
    /\ wf = NoWf
    /\ cli = NoCli
    /\ pers = NoPers
    /\ mem = NoMem

(* ------------------------ the knowledge directory --------------------- *)

\* A file is added, rewritten or removed.
EditDir ==
    /\ edits < MaxEdits
    /\ \E f \in FileNames, e \in DirEntries :
         /\ e # dir[f]
         /\ dir' = [dir EXCEPT ![f] = e]
         /\ added' = IF ~e.present THEN added \ {f}
                     ELSE IF ~dir[f].present THEN added \cup {f}
                     ELSE added
    /\ edits' = edits + 1
    /\ run' = [p \in Procs |-> [run[p] EXCEPT !.stale = TRUE]]
    /\ seededOnce' = NoSeed
    /\ UNCHANGED <<index, pc, documents, chunks, embeddings>>
    /\ UNCHANGED <<queryVars, toolVars>>

(* ----------------------- seedVectorKnowledgeBase ---------------------- *)

\* The function is called: at module load (a server start), or explicitly.
Invoke(p) ==
    /\ pc[p] = "idle"
    /\ pc' = [pc EXCEPT ![p] = "sample"]
    /\ \E cfg \in ConfigsOf(p) :
         run' = [run EXCEPT ![p] = [NoRun EXCEPT !.startRecords = index.records,
                                                 !.afterEmpty = FoundNone(run[p]),
                                                 !.config = cfg]]
    /\ UNCHANGED <<toolVars, queryVars, added, dir, edits, index, documents, chunks, embeddings, seededOnce>>

\* The first normal return since the directory was last edited, by an
\* invocation that began after that edit, is remembered.
MarkSeeded(p, records) ==
    IF run[p].stale \/ seededOnce.set THEN seededOnce
    ELSE [set |-> TRUE, records |-> records]

\* The function returns normally.
Return(p) ==
    /\ pc' = [pc EXCEPT ![p] = "idle"]
    /\ run' = [run EXCEPT ![p].outcome = "returned", ![p].trace = Append(@, "load")]
    /\ documents' = [documents EXCEPT ![p] = <<>>]
    /\ chunks' = [chunks EXCEPT ![p] = <<>>]
    /\ embeddings' = [embeddings EXCEPT ![p] = <<>>]
    /\ seededOnce' = MarkSeeded(p, index.records)
    /\ UNCHANGED <<toolVars, queryVars, added, dir, edits, index>>

\* A catch block that logs and returns instead of re-raising.
SeedCatchSwallow(p, step) ==
    /\ pc' = [pc EXCEPT ![p] = "idle"]
    /\ run' = [run EXCEPT ![p].failedAt = step, ![p].logged = TRUE, ![p].outcome = "returned",
                          ![p].trace = Append(@, step),
                          ![p].embedCalls = IF step = "embed" THEN @ + 1 ELSE @]
    /\ documents' = [documents EXCEPT ![p] = <<>>]
    /\ chunks' = [chunks EXCEPT ![p] = <<>>]
    /\ embeddings' = [embeddings EXCEPT ![p] = <<>>]
    /\ UNCHANGED <<toolVars, queryVars, added, dir, edits, index, seededOnce>>

\* The outer catch block: logger.error, then throw error.
SeedCatch(p, step) ==
    /\ pc' = [pc EXCEPT ![p] = "rejected"]
    /\ run' = [run EXCEPT ![p].failedAt = step, ![p].logged = TRUE, ![p].outcome = "threw",
                          ![p].trace = Append(@, step),
                          ![p].embedCalls = IF step = "embed" THEN @ + 1 ELSE @]
    /\ documents' = [documents EXCEPT ![p] = <<>>]
    /\ chunks' = [chunks EXCEPT ![p] = <<>>]
    /\ embeddings' = [embeddings EXCEPT ![p] = <<>>]
    /\ UNCHANGED <<toolVars, queryVars, added, dir, edits, index, seededOnce>>

\* A guard that embeds the sample twice, once to probe the service.
GuardSampleOkTwice(p) ==
    /\ pc[p] = "sample"
    /\ pc' = [pc EXCEPT ![p] = "guardQuery"]
    /\ run' = [run EXCEPT ![p].embedCalls = @ + 2, ![p].trace = Append(@, "guard")]
    /\ UNCHANGED <<toolVars, queryVars, added, dir, edits, index, documents, chunks, embeddings, seededOnce>>

\* Guard, first await: generateSampleEmbedding() resolves.
GuardSampleOk(p) ==
    /\ pc[p] = "sample"
    /\ pc' = [pc EXCEPT ![p] = "guardQuery"]
    /\ run' = [run EXCEPT ![p].embedCalls = @ + 1, ![p].trace = Append(@, "guard")]
    /\ UNCHANGED <<toolVars, queryVars, added, dir, edits, index, documents, chunks, embeddings, seededOnce>>

\* Guard: generateSampleEmbedding() rejects; the inner catch logs
\* "Creating new vector index" and seeding continues.
GuardSampleFail(p) ==
    /\ pc[p] = "sample"
    /\ pc' = [pc EXCEPT ![p] = "load"]
    /\ run' = [run EXCEPT ![p].guard = "error", ![p].embedCalls = @ + 1,
                          ![p].guardExists = index.exists,
                          ![p].trace = Append(@, "guard")]
    /\ UNCHANGED <<toolVars, queryVars, added, dir, edits, index, documents, chunks, embeddings, seededOnce>>

\* Guard: vector.query({indexName, queryVector, topK: 1}) finds a record:
\* "Vector knowledge base already seeded", return.
GuardSeeded(p) ==
    /\ pc[p] = "guardQuery"
    /\ index.exists
    /\ \E prof \in SampleProfiles :
         Len(VectorQuery(index.records, prof, 1, NoMinScore, NoFilter)) > 0
    /\ run' = [run EXCEPT ![p].guard = "seeded", ![p].outcome = "returned"]
    /\ pc' = [pc EXCEPT ![p] = "idle"]
    /\ seededOnce' = MarkSeeded(p, index.records)
    /\ UNCHANGED <<toolVars, queryVars, added, dir, edits, index, documents, chunks, embeddings>>

\* Guard: the query finds nothing in an existing index.
GuardEmpty(p) ==
    /\ pc[p] = "guardQuery"
    /\ index.exists
    /\ \E prof \in SampleProfiles :
         Len(VectorQuery(index.records, prof, 1, NoMinScore, NoFilter)) = 0
    /\ pc' = [pc EXCEPT ![p] = "load"]
    /\ run' = [run EXCEPT ![p].guard = "empty"]
    /\ UNCHANGED <<toolVars, queryVars, added, dir, edits, index, documents, chunks, embeddings, seededOnce>>

\* Guard: the query raises because the index does not exist; the inner
\* catch logs and seeding continues.
GuardNoIndex(p) ==
    /\ pc[p] = "guardQuery"
    /\ ~index.exists
    /\ pc' = [pc EXCEPT ![p] = "load"]
    /\ run' = [run EXCEPT ![p].guard = "noindex"]
    /\ UNCHANGED <<toolVars, queryVars, added, dir, edits, index, documents, chunks, embeddings, seededOnce>>

\* Guard: the query raises for another reason (the store is unreachable);
\* the same inner catch, seeding continues.
GuardQueryFail(p) ==
    /\ pc[p] = "guardQuery"
    /\ index.exists
    /\ pc' = [pc EXCEPT ![p] = "load"]
    /\ run' = [run EXCEPT ![p].guard = "error", ![p].guardExists = TRUE]
    /\ UNCHANGED <<toolVars, queryVars, added, dir, edits, index, documents, chunks, embeddings, seededOnce>>

\* getKnowledgeDocuments(config) returns documents.
LoadOk(p) ==
    /\ pc[p] = "load"
    /\ getKnowledgeDocuments(dir) # <<>>
    /\ documents' = [documents EXCEPT ![p] = getKnowledgeDocuments(dir)]
    /\ pc' = [pc EXCEPT ![p] = "chunk"]
    /\ run' = [run EXCEPT ![p].trace = Append(@, "load")]
    /\ UNCHANGED <<toolVars, queryVars, added, dir, edits, index, chunks, embeddings, seededOnce>>

\* documents.length === 0: "No knowledge documents found to seed", return.
LoadNone(p) ==
    /\ pc[p] = "load"
    /\ getKnowledgeDocuments(dir) = <<>>
    /\ Return(p)

\* fs.readFileSync raises on some file: nothing of the batch is kept.
LoadFail(p) ==
    /\ pc[p] = "load"
    /\ \E f \in FileNames : dir[f].present
    /\ SeedCatch(p, "load")

\* Every document is chunked.
ChunkOk(p) ==
    /\ pc[p] = "chunk"
    /\ chunks' = [chunks EXCEPT ![p] = ChunkAll(documents[p], chunkingConfig(run[p].config))]
    /\ pc' = [pc EXCEPT ![p] = "embed"]
    /\ run' = [run EXCEPT ![p].trace = Append(@, "chunk"),
                          ![p].chunkArgs = [i \in 1..Len(documents[p]) |->
                                               ChunkArgs(chunkingConfig(run[p].config))]]
    /\ UNCHANGED <<toolVars, queryVars, added, dir, edits, index, documents, embeddings, seededOnce>>

\* doc.chunk rejects for some document: Promise.all rejects.
ChunkFail(p) ==
    /\ pc[p] = "chunk"
    /\ SeedCatch(p, "chunk")

\* An embedding step after which the upsert follows at once.
EmbedOkThenUpsert(p) ==
    /\ pc[p] = "embed"
    /\ embeddings' = [embeddings EXCEPT ![p] = generateEmbedding(chunks[p])]
    /\ pc' = [pc EXCEPT ![p] = "upsert"]
    /\ run' = [run EXCEPT ![p].trace = Append(@, "embed"), ![p].embedCalls = @ + 1,
                          ![p].chunked = chunks[p], ![p].vectors = embeddings'[p]]
    /\ UNCHANGED <<toolVars, queryVars, added, dir, edits, index, documents, chunks, seededOnce>>

\* generateEmbedding(chunks) resolves.
EmbedOk(p) ==
    /\ pc[p] = "embed"
    /\ embeddings' = [embeddings EXCEPT ![p] = generateEmbedding(chunks[p])]
    /\ pc' = [pc EXCEPT ![p] = "createIndex"]
    /\ run' = [run EXCEPT ![p].trace = Append(@, "embed"), ![p].embedCalls = @ + 1,
                          ![p].chunked = chunks[p], ![p].vectors = embeddings'[p]]
    /\ UNCHANGED <<toolVars, queryVars, added, dir, edits, index, documents, chunks, seededOnce>>

\* An embedder that fails after the first chunk was embedded and upserted.
EmbedFailAfterPartialUpsert(p) ==
    /\ pc[p] = "embed"
    /\ index' = [exists |-> TRUE, dimension |-> EmbeddingDimension,
                 records |-> Upsert(index.records,
                     BuildRecords(generateEmbedding(SubSeq(chunks[p], 1, 1)), chunks[p]))]
    /\ pc' = [pc EXCEPT ![p] = "rejected"]
    /\ run' = [run EXCEPT ![p].failedAt = "embed", ![p].logged = TRUE,
                          ![p].outcome = "threw", ![p].upserts = @ + 1,
                          ![p].trace = Append(@, "embed"), ![p].embedCalls = @ + 1]
    /\ documents' = [documents EXCEPT ![p] = <<>>]
    /\ chunks' = [chunks EXCEPT ![p] = <<>>]
    /\ embeddings' = [embeddings EXCEPT ![p] = <<>>]
    /\ UNCHANGED <<toolVars, queryVars, added, dir, edits, seededOnce>>

\* The embedding service fails.
EmbedFail(p) ==
    /\ pc[p] = "embed"
    /\ SeedCatch(p, "embed")

\* A createIndex whose dimension is embeddings.length.
CreateIndexOkCountAsDimension(p) ==
    /\ pc[p] = "createIndex"
    /\ index.exists => index.dimension = Len(embeddings[p])
    /\ index' = CreateIndex(index, Len(embeddings[p]))
    /\ run' = [run EXCEPT ![p].creates = @ + 1, ![p].trace = Append(@, "createIndex"),
                          ![p].createdDim = Len(embeddings[p])]
    /\ pc' = [pc EXCEPT ![p] = "upsert"]
    /\ UNCHANGED <<toolVars, queryVars, added, dir, edits, documents, chunks, embeddings, seededOnce>>

\* vector.createIndex({indexName, dimension: embeddings[0].length, metric});
\* the store rejects a dimension other than the existing index's.
CreateIndexOk(p) ==
    /\ pc[p] = "createIndex"
    /\ index.exists => index.dimension = embeddings[p][1].dim
    /\ index' = CreateIndex(index, embeddings[p][1].dim)
    /\ run' = [run EXCEPT ![p].creates = @ + 1, ![p].trace = Append(@, "createIndex"),
                          ![p].createdDim = embeddings[p][1].dim]
    /\ pc' = [pc EXCEPT ![p] = "upsert"]
    /\ UNCHANGED <<toolVars, queryVars, added, dir, edits, documents, chunks, embeddings, seededOnce>>

CreateIndexFail(p) ==
    /\ pc[p] = "createIndex"
    /\ SeedCatch(p, "createIndex")

\* The upsert of new commits and the function returns.
CommitUpsert(p, new) ==
    /\ pc[p] = "upsert"
    /\ index.exists
    /\ \A r \in new : r.vector.dim = index.dimension
    /\ index' = [index EXCEPT !.records = Upsert(@, new)]
    /\ pc' = [pc EXCEPT ![p] = "idle"]
    /\ run' = [run EXCEPT ![p].upserts = @ + 1, ![p].outcome = "returned",
                          ![p].trace = Append(@, "upsert"), ![p].upserted = new]
    /\ documents' = [documents EXCEPT ![p] = <<>>]
    /\ chunks' = [chunks EXCEPT ![p] = <<>>]
    /\ embeddings' = [embeddings EXCEPT ![p] = <<>>]
    /\ seededOnce' = MarkSeeded(p, index'.records)
    /\ UNCHANGED <<toolVars, queryVars, added, dir, edits>>

\* vector.upsert({indexName, vectors, metadata, ids}) commits with the
\* records chunk-0 .. chunk-(n-1); the function logs "seeded successfully"
\* and returns.
UpsertOk(p) ==
    CommitUpsert(p, BuildRecords(embeddings[p], chunks[p]))

\* The upsert fails: its transaction is rolled back.
UpsertFail(p) ==
    /\ pc[p] = "upsert"
    /\ SeedCatch(p, "upsert")

\* setImmediate(() => seedVectorKnowledgeBase().catch(error => logger.error)):
\* the rejection is logged by the module-load caller.
ModuleLoadCatch(p) ==
    /\ p = "moduleLoad"
    /\ pc[p] = "rejected"
    /\ pc' = [pc EXCEPT ![p] = "idle"]
    /\ run' = [run EXCEPT ![p].caught = TRUE]
    /\ UNCHANGED <<toolVars, queryVars, added, dir, edits, index, documents, chunks, embeddings, seededOnce>>

\* An explicit caller's await receives the rejection.
ExplicitCallerRejected(p) ==
    /\ p = "explicit"
    /\ pc[p] = "rejected"
    /\ pc' = [pc EXCEPT ![p] = "idle"]
    /\ UNCHANGED <<toolVars, queryVars, added, dir, edits, index, documents, chunks, embeddings, run, seededOnce>>

SeedStep(p) ==
    \/ Invoke(p)
    \/ GuardSampleOk(p)
    \/ GuardSampleFail(p)
    \/ GuardSeeded(p)
    \/ GuardEmpty(p)
    \/ GuardNoIndex(p)
    \/ GuardQueryFail(p)
    \/ LoadOk(p)
    \/ LoadNone(p)
    \/ LoadFail(p)
    \/ ChunkOk(p)
    \/ ChunkFail(p)
    \/ EmbedOk(p)
    \/ EmbedFail(p)
    \/ CreateIndexOk(p)
    \/ CreateIndexFail(p)
    \/ UpsertOk(p)
    \/ UpsertFail(p)

(* ------------- queryKnowledgeTool.execute / workflow step ------------- *)

\* The tool is called with a validated input, or the workflow's first step
\* starts: await embed({model, value}).
QueryCall ==
    /\ qpc = "idle"
    /\ \E in \in ToolInputs \cup WorkflowInputs : qInput' = in
    /\ qpc' = "embed"
    /\ embedding' = NoEmbedding
    /\ queryLog' = <<>>
    /\ results' = <<>>
    /\ qOutcome' = "none"
    /\ qError' = "none"
    /\ UNCHANGED <<seedVars, toolVars>>

\* The call raises err to its caller: neither the tool nor the step has a
\* try/catch.
QueryThrows(err) ==
    /\ qpc' = "idle"
    /\ qOutcome' = "threw"
    /\ qError' = err
    /\ results' = <<>>
    /\ UNCHANGED <<qInput, embedding, queryLog>>
    /\ UNCHANGED <<seedVars, toolVars>>

\* embed resolves; the tool then parses the filter, and raises
\* "Invalid JSON in filter" when JSON.parse fails.
QueryEmbedOk ==
    /\ qpc = "embed"
    /\ \E prof \in Profiles : embedding' = prof
    /\ IF FilterParses(qInput.filter)
       THEN /\ qpc' = "query"
            /\ UNCHANGED <<qOutcome, qError>>
       ELSE /\ qpc' = "idle"
            /\ qOutcome' = "threw"
            /\ qError' = "Invalid JSON in filter"
    /\ UNCHANGED <<qInput, queryLog, results>>
    /\ UNCHANGED <<seedVars, toolVars>>

\* The embedding service fails.
QueryEmbedFail ==
    /\ qpc = "embed"
    /\ QueryThrows("embed")

\* One vector.query of the call, with minScore ms.
queryOnce(ms) ==
    VectorQuery(index.records, embedding, qInput.topK, ms, parsedFilter(qInput.filter))

\* The query is logged with the records it ran on.
Logged(ms, res) ==
    Append(queryLog, [minScore |-> ms, results |-> res, records |-> index.records,
                      filter |-> parsedFilter(qInput.filter)])

\* The call returns its results.
QueryReturns ==
    /\ qpc' = "idle"
    /\ qOutcome' = "returned"
    /\ UNCHANGED qError

\* A first query whose results are returned whatever they are.
ToolQueryFirstNoFallback ==
    /\ qpc = "query"
    /\ qInput.kind = "tool"
    /\ index.exists
    /\ results' = queryOnce(qInput.minScore)
    /\ queryLog' = Logged(qInput.minScore, results')
    /\ QueryReturns
    /\ UNCHANGED <<qInput, embedding>>
    /\ UNCHANGED <<seedVars, toolVars>>

\* The tool's first query, queryOnce(minScore ?? 0): with no result and
\* minScore > 0 the fallback follows, otherwise the results are returned.
ToolQueryFirst ==
    /\ qpc = "query"
    /\ qInput.kind = "tool"
    /\ index.exists
    /\ results' = queryOnce(qInput.minScore)
    /\ queryLog' = Logged(qInput.minScore, results')
    /\ IF Len(results') = 0 /\ qInput.minScore > 0
       THEN /\ qpc' = "retry"
            /\ UNCHANGED <<qOutcome, qError>>
       ELSE QueryReturns
    /\ UNCHANGED <<qInput, embedding>>
    /\ UNCHANGED <<seedVars, toolVars>>

\* The fallback, queryOnce(0): its results are returned.
ToolQueryRetry ==
    /\ qpc = "retry"
    /\ index.exists
    /\ results' = queryOnce(RelaxedMinScore)
    /\ queryLog' = Logged(RelaxedMinScore, results')
    /\ QueryReturns
    /\ UNCHANGED <<qInput, embedding>>
    /\ UNCHANGED <<seedVars, toolVars>>

\* The workflow step's only query, with minScore 0.3.
StepQuery ==
    /\ qpc = "query"
    /\ qInput.kind = "workflow"
    /\ index.exists
    /\ results' = queryOnce(qInput.minScore)
    /\ queryLog' = Logged(qInput.minScore, results')
    /\ QueryReturns
    /\ UNCHANGED <<qInput, embedding>>
    /\ UNCHANGED <<seedVars, toolVars>>

\* vector.query rejects because the index does not exist.
QueryNoIndex ==
    /\ qpc \in {"query", "retry"}
    /\ ~index.exists
    /\ QueryThrows("noindex")

\* vector.query rejects for another reason (the store is unreachable).
QueryStoreFail ==
    /\ qpc \in {"query", "retry"}
    /\ index.exists
    /\ QueryThrows("store")

QueryStep ==
    \/ QueryCall
    \/ QueryEmbedOk
    \/ QueryEmbedFail
    \/ ToolQueryFirst
    \/ ToolQueryRetry
    \/ StepQuery
    \/ QueryNoIndex
    \/ QueryStoreFail

(* -------------------- seedKnowledgeBase (mastra.ts) ------------------- *)

\* A server start calls seedKnowledgeBase: await storage.listThreads.
KSeedStart ==
    /\ kpc = "idle"
    /\ kpc' = "list"
    /\ kdoc' = 0
    /\ krun' = NoKRun
    /\ UNCHANGED <<seedVars, queryVars, storage, adds, lastAdd, conv, tzc, appVars>>

\* The function returns.
KSeedEnds(r) ==
    /\ kpc' = "idle"
    /\ krun' = [r EXCEPT !.ended = TRUE]
    /\ UNCHANGED <<seedVars, queryVars, kdoc, adds, lastAdd, conv, tzc, appVars>>

\* The catch block: logger.error, and the function returns.
KSeedCatch == KSeedEnds([krun EXCEPT !.failed = TRUE]) /\ UNCHANGED storage

\* The knowledge thread is among the listed threads: "already seeded".
KListFound ==
    /\ kpc = "list"
    /\ KNOWLEDGE_BASE_THREAD_ID \in storage.threads
    /\ KSeedEnds([krun EXCEPT !.found = TRUE])
    /\ UNCHANGED storage

\* The knowledge thread is not in storage.
KListAbsent ==
    /\ kpc = "list"
    /\ KNOWLEDGE_BASE_THREAD_ID \notin storage.threads
    /\ kpc' = "saveThread"
    /\ UNCHANGED <<seedVars, queryVars, storage, kdoc, krun, adds, lastAdd, conv, tzc, appVars>>

\* The knowledge thread is in storage but not among the 100 threads that
\* listThreads({limit: 100}) returned: more conversation threads exist.
KListMissed ==
    /\ kpc = "list"
    /\ KNOWLEDGE_BASE_THREAD_ID \in storage.threads
    /\ kpc' = "saveThread"
    /\ UNCHANGED <<seedVars, queryVars, storage, kdoc, krun, adds, lastAdd, conv, tzc, appVars>>

KListFail ==
    /\ kpc = "list"
    /\ KSeedCatch

\* await storage.saveThread({id: threadId, ...})
KSaveThreadOk ==
    /\ kpc = "saveThread"
    /\ storage' = SaveThread(storage, KNOWLEDGE_BASE_THREAD_ID)
    /\ krun' = [krun EXCEPT !.saveThreads = @ + 1]
    /\ kpc' = "saveMessage"
    /\ UNCHANGED <<seedVars, queryVars, kdoc, adds, lastAdd, conv, tzc, appVars>>

KSaveThreadFail ==
    /\ kpc = "saveThread"
    /\ KSeedCatch

\* One turn of the loop: await storage.saveMessage({id: safeId, ...}).
KSaveMessageOk ==
    /\ kpc = "saveMessage"
    /\ kdoc < Len(KNOWLEDGE_DOCUMENTS)
    /\ storage' = SaveMessage(storage, SeedMessage(KNOWLEDGE_DOCUMENTS[kdoc + 1]))
    /\ kdoc' = kdoc + 1
    /\ krun' = [krun EXCEPT !.saveMessages = @ + 1]
    /\ UNCHANGED <<seedVars, queryVars, kpc, adds, lastAdd, conv, tzc, appVars>>

KSaveMessageFail ==
    /\ kpc = "saveMessage"
    /\ kdoc < Len(KNOWLEDGE_DOCUMENTS)
    /\ KSeedCatch

\* The loop is over: "Knowledge base seeded with n documents".
KSeedDone ==
    /\ kpc = "saveMessage"
    /\ kdoc = Len(KNOWLEDGE_DOCUMENTS)
    /\ KSeedEnds(krun)
    /\ UNCHANGED storage

(* ----------------------- addKnowledgeTool.execute --------------------- *)

\* A save under an id made from the topic.
AddKnowledgeOkTopicId(topic, content) ==
    /\ adds < MaxAdds
    /\ storage' = SaveMessage(storage,
                      [id |-> <<"added", topic>>, threadId |-> KNOWLEDGE_BASE_THREAD_ID,
                       role |-> "system", content |-> TopicContent(topic, content)])
    /\ adds' = adds + 1
    /\ lastAdd' = [success |-> TRUE, called |-> TRUE, outcome |-> "returned",
                   message |-> <<"Successfully added knowledge about", topic>>]
    /\ UNCHANGED <<seedVars, queryVars, kpc, kdoc, krun, conv, tzc, appVars>>

\* agent.memory.saveMessages of one system message without an id, in the
\* knowledge thread: the memory gives it a new id; {success: true}.
AddKnowledgeOk(topic, content) ==
    /\ adds < MaxAdds
    /\ storage' = SaveMessage(storage,
                      [id |-> GeneratedId(adds + 1), threadId |-> KNOWLEDGE_BASE_THREAD_ID,
                       role |-> "system", content |-> TopicContent(topic, content)])
    /\ adds' = adds + 1
    /\ lastAdd' = [success |-> TRUE, called |-> TRUE, outcome |-> "returned",
                   message |-> <<"Successfully added knowledge about", topic>>]
    /\ UNCHANGED <<seedVars, queryVars, kpc, kdoc, krun, conv, tzc, appVars>>

\* A catch block that raises the error again, as the query tool's does.
AddKnowledgeFailRethrows ==
    /\ adds < MaxAdds
    /\ adds' = adds + 1
    /\ \E cause \in AddFailures :
         lastAdd' = [success |-> FALSE, called |-> TRUE, outcome |-> "threw",
                     message |-> <<"Failed to add knowledge", cause>>]
    /\ UNCHANGED <<seedVars, queryVars, storage, kpc, kdoc, krun, conv, tzc, appVars>>

\* The agent has no memory, or saveMessages raises: the catch block returns
\* {success: false, message: "Failed to add knowledge: ..."}.
AddKnowledgeFail ==
    /\ adds < MaxAdds
    /\ adds' = adds + 1
    /\ \E cause \in AddFailures :
         lastAdd' = [success |-> FALSE, called |-> TRUE, outcome |-> "returned",
                     message |-> <<"Failed to add knowledge", cause>>]
    /\ UNCHANGED <<seedVars, queryVars, storage, kpc, kdoc, krun, conv, tzc, appVars>>

(* ----------------------- unit conversion tools ----------------------- *)

\* One of the two tools converts a value.
ConvertForth ==
    /\ conv.stage = "idle"
    /\ \E tool \in {"metric", "imperial"} :
         \E unit \in UnitsOf(tool), value \in Values :
            LET out == ExecuteTool(tool, value, unit)
            IN  conv' = [NoConv EXCEPT !.stage = "converted", !.tool = tool, !.unit = unit,
                                       !.value = value, !.forth = out.convertedValue,
                                       !.forthUnit = out.convertedUnit]
    /\ UNCHANGED <<seedVars, queryVars, memVars, tzc, appVars>>

\* The other tool converts the result back.
ConvertBack ==
    /\ conv.stage = "converted"
    /\ conv.forthUnit \in UnitsOf(OtherTool(conv.tool))
    /\ LET out == ExecuteTool(OtherTool(conv.tool), conv.forth, conv.forthUnit)
       IN  conv' = [conv EXCEPT !.stage = "back", !.back = out.convertedValue,
                                !.backUnit = out.convertedUnit]
    /\ UNCHANGED <<seedVars, queryVars, memVars, tzc, appVars>>

(* -------------------- convertUTCToTimezoneTool.execute ---------------- *)

\* The tool is called with a validated input.
TzCall ==
    /\ tzc.stage = "idle"
    /\ \E in \in TzInputs :
         tzc' = [NoTzc EXCEPT !.stage = "called", !.provided = in.provided,
                              !.utcTimestamp = in.utcTimestamp, !.timezone = in.timezone]
    /\ UNCHANGED <<seedVars, queryVars, memVars, conv, appVars>>

\* execute: the date is chosen, the timezone resolved, and the formatters
\* either format the date or raise "Failed to convert timezone".
TzExecute ==
    /\ tzc.stage = "called"
    /\ \E now \in Nows :
         tzc' = [tzc EXCEPT
                   !.stage = "done",
                   !.now = now,
                   !.date = DateOf(tzc, now),
                   !.tz = IF tzc.timezone = "local" THEN SystemTimezone ELSE tzc.timezone,
                   !.outcome = IF tzc.timezone = "Invalid/Timezone" THEN "threw"
                               ELSE "returned"]
    /\ UNCHANGED <<seedVars, queryVars, memVars, conv, appVars>>

(* ------------------- the CLI's workflow command ----------------------- *)

workflowFrame == <<seedVars, queryVars, memVars, conv, tzc, pers, mem>>

\* "Prepare input data": the parsed --input, else {topic, maxResults}, else
\* process.exit(1).
PrepareInput(opts) ==
    IF Truthy(opts.input) THEN
        IF JsonValid(opts.input.value)
        THEN [opts EXCEPT !.stage = "ready", !.source = "input",
                          !.inputData = JsonParse(opts.input.value)]
        ELSE [opts EXCEPT !.stage = "exited", !.exitCode = 1]
    ELSE IF Truthy(opts.topic) THEN
        [opts EXCEPT !.stage = "ready", !.source = "topic",
                     !.inputData = [topic |-> opts.topic.value,
                                    maxResults |-> parseInt(opts.maxResults)]]
    ELSE [opts EXCEPT !.stage = "exited", !.exitCode = 1]

\* The command's action is called with the parsed command line.
CliWorkflow ==
    /\ cli.stage = "idle"
    /\ \E name \in WorkflowNames, topic \in TopicOptions,
          maxResults \in MaxResultsOptions, input \in InputOptions :
         cli' = PrepareInput([NoCli EXCEPT !.name = name, !.topic = topic,
                                           !.maxResults = maxResults, !.input = input])
    /\ UNCHANGED <<workflowFrame, wf>>

\* await workflow.createRun()
CliCreateRun ==
    /\ cli.stage = "ready"
    /\ cli.name = "researchReport"
    /\ cli' = [cli EXCEPT !.stage = "created", !.runsCreated = @ + 1]
    /\ wf' = [NoWf EXCEPT !.pc = "created"]
    /\ UNCHANGED workflowFrame

\* createRun rejects (no such workflow, server unreachable): the catch block
\* prints the error and calls process.exit(1).
CliCreateRunFail ==
    /\ cli.stage = "ready"
    /\ cli' = [cli EXCEPT !.stage = "exited", !.exitCode = 1]
    /\ UNCHANGED <<workflowFrame, wf>>

\* await run.startAsync({inputData}): the server starts the run.
CliStartAsync ==
    /\ cli.stage = "created"
    /\ cli' = [cli EXCEPT !.stage = "waiting", !.runsStarted = @ + 1]
    /\ wf' = [wf EXCEPT !.pc = "started"]
    /\ UNCHANGED workflowFrame

\* startAsync resolves with the run's result, which is printed; the command
\* ends.
CliResult ==
    /\ cli.stage = "waiting"
    /\ wf.status # "none"
    /\ cli' = [cli EXCEPT !.stage = "done", !.exitCode = 0]
    /\ UNCHANGED <<workflowFrame, wf>>

(* ---------------------- research-report workflow --------------------- *)

\* Whether the input satisfies the workflow's inputSchema.
InputSchemaOK(data) ==
    data.topic # "undefined" /\ data.maxResults \notin {NaN, Undefined}

\* The run ends with status failed.
WfFails(r) == wf' = [r EXCEPT !.pc = "failed", !.status = "failed"]

\* The input is rejected by the inputSchema: no step executes.
WfRejectInput ==
    /\ wf.pc = "started"
    /\ ~InputSchemaOK(cli.inputData)
    /\ WfFails(wf)
    /\ UNCHANGED <<workflowFrame, cli>>

\* queryKnowledgeBaseStep.execute up to its first await:
\* setState({researchStartTime}).
WfQueryBegin ==
    /\ wf.pc = "started"
    /\ \E now \in Nows :
         wf' = [wf EXCEPT !.pc = "query",
                          !.trace = Append(@, <<"start", StepIds[1]>>),
                          !.state = [k \in {"researchStartTime"} |-> now],
                          !.sets = Append(@, "researchStartTime")]
    /\ UNCHANGED <<workflowFrame, cli>>

\* embed and vector.query resolve: {findings, sourceCount}.
WfQueryOk ==
    /\ wf.pc = "query"
    /\ \E n \in SourceCounts :
         wf' = [wf EXCEPT !.pc = "metadata", !.sourceCount = n,
                          !.trace = Append(@, <<"end", StepIds[1]>>)]
    /\ UNCHANGED <<workflowFrame, cli>>

\* embed or vector.query rejects: the step throws.
WfQueryFail ==
    /\ wf.pc = "query"
    /\ WfFails(wf)
    /\ UNCHANGED <<workflowFrame, cli>>

\* A get-metadata that sets a state of metadataAddedTime alone.
WfGetMetadataNoSpread ==
    /\ wf.pc = "metadata"
    /\ \E now \in Nows :
         wf' = [wf EXCEPT !.pc = "synthesize",
                          !.trace = @ \o <<<<"start", StepIds[2]>>, <<"end", StepIds[2]>>>>,
                          !.state = [k \in {"metadataAddedTime"} |-> now],
                          !.sets = Append(@, "metadataAddedTime")]
    /\ UNCHANGED <<workflowFrame, cli>>

\* getMetadataStep.execute: setState({...state, metadataAddedTime}).
WfGetMetadata ==
    /\ wf.pc = "metadata"
    /\ \E now \in Nows :
         wf' = [wf EXCEPT !.pc = "synthesize",
                          !.trace = @ \o <<<<"start", StepIds[2]>>, <<"end", StepIds[2]>>>>,
                          !.state = Spread(@, "metadataAddedTime", now),
                          !.sets = Append(@, "metadataAddedTime")]
    /\ UNCHANGED <<workflowFrame, cli>>

\* synthesizeReportStep.execute up to its await: the general agent is
\* found and asked to generate.
WfSynthBegin ==
    /\ wf.pc = "synthesize"
    /\ wf' = [wf EXCEPT !.pc = "generate",
                        !.trace = Append(@, <<"start", StepIds[3]>>)]
    /\ UNCHANGED <<workflowFrame, cli>>

\* throw new Error("General agent not found")
WfSynthNoAgent ==
    /\ wf.pc = "synthesize"
    /\ WfFails([wf EXCEPT !.trace = Append(@, <<"start", StepIds[3]>>)])
    /\ UNCHANGED <<workflowFrame, cli>>

\* generate resolves: setState({...state, reportCompletedTime}) and the
\* step returns {report, summary}.
WfSynthOk ==
    /\ wf.pc = "generate"
    /\ \E now \in Nows :
         wf' = [wf EXCEPT !.pc = "done", !.status = "success",
                          !.trace = Append(@, <<"end", StepIds[3]>>),
                          !.state = Spread(@, "reportCompletedTime", now),
                          !.sets = Append(@, "reportCompletedTime")]
    /\ UNCHANGED <<workflowFrame, cli>>

\* generate rejects: the step throws.
WfSynthFail ==
    /\ wf.pc = "generate"
    /\ WfFails(wf)
    /\ UNCHANGED <<workflowFrame, cli>>

(* ------------------------------ loadPersona -------------------------- *)

\* loadPersona(personaName) with a file that is read.
LoadPersonaRead ==
    /\ pers.stage = "idle"
    /\ \E personaName \in PersonaNames, lines \in PersonaFiles :
         pers' = [stage |-> "done", personaName |-> personaName, readable |-> TRUE,
                  lines |-> lines, parsed |-> ParsePersona(lines),
                  result |-> loadPersona(TRUE, lines)]
    /\ UNCHANGED <<seedVars, queryVars, memVars, conv, tzc, wf, cli, mem>>

\* readFileSync raises: the file is missing or cannot be read.
LoadPersonaUnreadable ==
    /\ pers.stage = "idle"
    /\ \E personaName \in PersonaNames :
         pers' = [NoPers EXCEPT !.stage = "done", !.personaName = personaName,
                                !.result = loadPersona(FALSE, <<>>)]
    /\ UNCHANGED <<seedVars, queryVars, memVars, conv, tzc, wf, cli, mem>>

(* ---------------------------- memory helpers ------------------------- *)

\* createMemoryWithSemanticRecall(options) or createAdvancedMemory(options).
CreateMemory ==
    /\ mem.stage = "idle"
    /\ \E helper \in MemoryHelpers, lastMessages \in LastMessagesOptions,
          recall \in RecallOptions :
         mem' = [stage |-> "done", helper |-> helper, lastMessages |-> lastMessages,
                 recall |-> recall,
                 options |-> MemoryOptions(helper, lastMessages, recall)]
    /\ UNCHANGED <<seedVars, queryVars, memVars, conv, tzc, wf, cli, pers>>

\* The Memory instance is handed to an agent; the helper is called again
\* for another agent.
CreateMemoryAgain ==
    /\ mem.stage = "done"
    /\ mem' = NoMem
    /\ UNCHANGED <<seedVars, queryVars, memVars, conv, tzc, wf, cli, pers>>

(* --------------------------- specifications --------------------------- *)

\* One server process at a time: each start runs the module-load seeding
\* to its end before the next start; the directory is edited at any time.
Next ==
    \/ EditDir
    \/ SeedStep("moduleLoad")
    \/ ModuleLoadCatch("moduleLoad")

Spec == Init /\ [][Next]_vars

\* Two invocations on one vector database interleave at their awaits: the
\* module-load seeding and an explicit call, or two server processes.
NextConc ==
    \/ \E p \in Procs : SeedStep(p)
    \/ \E p \in Procs : ModuleLoadCatch(p)
    \/ \E p \in Procs : ExplicitCallerRejected(p)

SpecConc == Init /\ [][NextConc]_vars

\* The first start of a server on a fresh vector database: the module-load
\* seeding runs once.
FirstStart(p) == run[p].outcome = "none"

\* Knowledge queries run while that seeding runs, and after it.
NextQuery ==
    \/ FirstStart("moduleLoad") /\ Invoke("moduleLoad")
    \/ GuardSampleOk("moduleLoad")
    \/ GuardSampleFail("moduleLoad")
    \/ GuardNoIndex("moduleLoad")
    \/ LoadOk("moduleLoad")
    \/ LoadNone("moduleLoad")
    \/ LoadFail("moduleLoad")
    \/ ChunkOk("moduleLoad")
    \/ ChunkFail("moduleLoad")
    \/ EmbedOk("moduleLoad")
    \/ EmbedFail("moduleLoad")
    \/ CreateIndexOk("moduleLoad")
    \/ CreateIndexFail("moduleLoad")
    \/ UpsertOk("moduleLoad")
    \/ UpsertFail("moduleLoad")
    \/ ModuleLoadCatch("moduleLoad")
    \/ QueryStep

SpecQuery == Init /\ [][NextQuery]_vars

\* The vector pipeline at rest, its directory empty.
InitTools == Init /\ dir = [f \in FileNames |-> Absent]

\* Server starts, each running seedKnowledgeBase to its end, and the
\* agents' add-knowledge calls in between and meanwhile.
NextMemory ==
    \/ KSeedStart
    \/ KListFound
    \/ KListAbsent
    \/ KListMissed
    \/ KListFail
    \/ KSaveThreadOk
    \/ KSaveThreadFail
    \/ KSaveMessageOk
    \/ KSaveMessageFail
    \/ KSeedDone
    \/ \E topic \in AddTopics, content \in AddContents : AddKnowledgeOk(topic, content)
    \/ AddKnowledgeFail

SpecMemory == InitTools /\ [][NextMemory]_vars

\* A conversion and the conversion of its result back.
NextUnits == ConvertForth \/ ConvertBack

SpecUnits == InitTools /\ [][NextUnits]_vars

\* One call of convert-utc-to-timezone.
NextTime == TzCall \/ TzExecute

SpecTime == InitTools /\ [][NextTime]_vars

\* The CLI's workflow command and the run of the research-report workflow
\* it starts.
NextWorkflow ==
    \/ CliWorkflow
    \/ CliCreateRun
    \/ CliCreateRunFail
    \/ CliStartAsync
    \/ CliResult
    \/ WfRejectInput
    \/ WfQueryBegin
    \/ WfQueryOk
    \/ WfQueryFail
    \/ WfGetMetadata
    \/ WfSynthBegin
    \/ WfSynthNoAgent
    \/ WfSynthOk
    \/ WfSynthFail

SpecWorkflow == InitTools /\ [][NextWorkflow]_vars

\* Calls of loadPersona.
NextPersona == LoadPersonaRead \/ LoadPersonaUnreadable

SpecPersona == InitTools /\ [][NextPersona]_vars

\* Calls of the memory helpers.
NextMemoryConfig == CreateMemory \/ CreateMemoryAgain

SpecMemoryConfig == InitTools /\ [][NextMemoryConfig]_vars


(* ------------------------------- claims ------------------------------- *)

Ids(S) == {r.id : r \in S}

IdsOf(res) == {res[i].id : i \in 1..Len(res)}

\* The chunks the pipeline makes of directory d.
DirChunks(d) == ChunkAll(getKnowledgeDocuments(d), chunkingConfig(NoOverride))

Holds(records, c) ==
    \E r \in records : r.metadata.content = c.text /\ r.metadata.source = c.source

\* C1 (as claimed). Once an invocation has returned normally, every later
\* invocation on the same directory content leaves the index with exactly
\* the records the first one left, and no id twice.
C1_SeedTwiceSameRecords ==
    seededOnce.set =>
        /\ index.records = seededOnce.records
        /\ \A r1, r2 \in index.records : r1.id = r2.id => r1 = r2

\* C2 (as claimed). An invocation that finds the index holding a record
\* performs no createIndex and no upsert and leaves the records unchanged.
C2_SeededIndexIsLeftAlone ==
    \A p \in Procs :
        run[p].startRecords # {} =>
            /\ run[p].creates = 0
            /\ run[p].upserts = 0
            /\ index.records = run[p].startRecords

\* C3 (as claimed). Of the invocations that began on the empty index and
\* passed the guard, at most one completes the upsert.
C3_AtMostOneUpsert ==
    Cardinality({p \in Procs : /\ run[p].startRecords = {}
                               /\ run[p].guard \in {"noindex", "empty"}
                               /\ run[p].upserts > 0}) <= 1

\* C4 (as claimed). When a seeding attempt has failed, the index holds no
\* record.
C4_FailedAttemptLeavesIndexEmpty ==
    \A p \in Procs : run[p].outcome = "threw" => index.records = {}

\* C5. All or nothing: an attempt that failed while loading, chunking or
\* embedding the chunks has issued no createIndex and no upsert, and the
\* index holds the records it held when the attempt began.
C5_AllOrNothing ==
    \A p \in Procs :
        run[p].failedAt \in {"load", "chunk", "embed"} =>
            /\ run[p].upserts = 0
            /\ run[p].creates = 0
            /\ index.records = run[p].startRecords

\* C5 witness: the embedding of the chunks failed in an attempt on an index
\* that holds records.
C5_Witness ==
    /\ run["moduleLoad"].failedAt = "embed"
    /\ run["moduleLoad"].outcome = "threw"
    /\ index.records # {}

\* C6 (as claimed). A step that raises is logged and the seeding function
\* returns normally to its caller.
C6_FailureReturnsNormally ==
    \A p \in Procs :
        run[p].failedAt # "none" => run[p].logged /\ run[p].outcome = "returned"

\* C6 (amended). A step that raises is logged and re-raised to the caller of
\* seedVectorKnowledgeBase; the module-load caller catches the rejection, so
\* the failure ends there.
C6_FailureLoggedAndRethrown ==
    \A p \in Procs :
        run[p].failedAt # "none" =>
            /\ run[p].logged
            /\ run[p].outcome = "threw"
            /\ pc[p] \in {"rejected", "idle"}
            /\ (p = "moduleLoad" /\ pc[p] = "idle") => run[p].caught

\* C6 witness: the module-load seeding failed at the upsert and its caller
\* caught the rejection.
C6_Witness ==
    /\ run["moduleLoad"].failedAt = "upsert"
    /\ run["moduleLoad"].caught
    /\ pc["moduleLoad"] = "idle"

\* What the tool's call returned is what its last vector query returned.
ToolReturned == qInput.kind = "tool" /\ qpc = "idle" /\ qOutcome = "returned"

\* C7. Retry policy of queryKnowledgeTool.execute: the first vector query
\* carries the caller's minScore; a second one is issued exactly when the
\* first returned nothing and minScore > 0, with minScore 0, and its results
\* are returned; otherwise the first query's results are returned; there
\* are never more than two vector queries, each with the caller's topK and
\* filter.
C7_RetryPolicy ==
    /\ Len(queryLog) <= 2
    /\ \A i \in 1..Len(queryLog) :
          queryLog[i].results =
              VectorQuery(queryLog[i].records, embedding, qInput.topK,
                          queryLog[i].minScore, parsedFilter(qInput.filter))
    /\ Len(queryLog) >= 1 => queryLog[1].minScore = qInput.minScore
    /\ qpc = "retry" => Len(queryLog) = 1
    /\ ToolReturned =>
          /\ Len(queryLog) >= 1
          /\ Len(queryLog) = 2 <=> (queryLog[1].results = <<>> /\ qInput.minScore > 0)
          /\ Len(queryLog) = 2 => queryLog[2].minScore = 0
          /\ results = queryLog[Len(queryLog)].results

\* C7 witness: the strict query found nothing, the relaxed one found
\* results, and they were returned.
C7_Witness ==
    /\ ToolReturned
    /\ Len(queryLog) = 2
    /\ Len(results) > 0

\* What query(text, topK, 0) returns on the records the returned results
\* were read from.
RelaxedResults ==
    VectorQuery(queryLog[Len(queryLog)].records, embedding, qInput.topK, 0,
                parsedFilter(qInput.filter))

C9_MissingIndexGivesNoResults ==
    (qpc = "idle" /\ qInput.kind # "none" /\ ~index.exists
     /\ qError \notin {"embed", "Invalid JSON in filter"})
        => (qOutcome = "returned" /\ results = <<>>)

\* C10 (as claimed). After a server start that ran to its normal end with
\* the directory as it is now, the chunks of every file that was added to
\* the directory are in the index.
C10_RestartIndexesAddedFiles ==
    \A p \in Procs :
        (pc[p] = "idle" /\ run[p].outcome = "returned" /\ ~run[p].stale) =>
            \A i \in 1..Len(DirChunks(dir)) :
                DirChunks(dir)[i].source \in added =>
                    Holds(index.records, DirChunks(dir)[i])

\* A run of the seeding that began on an empty index, embedded exactly one
\* chunk and returned normally.
SingleChunkRun(p) ==
    /\ run[p].outcome = "returned"
    /\ run[p].startRecords = {}
    /\ Len(run[p].chunked) = 1

\* C11 (as claimed). Seeding an empty index from a directory that yields
\* exactly one chunk calls the embedding service exactly once in the whole
\* run and upserts exactly once, one record.
C11_OneEmbeddingCallOneUpsert ==
    \A p \in Procs :
        SingleChunkRun(p) =>
            /\ run[p].embedCalls = 1
            /\ run[p].upserts = 1
            /\ Cardinality(run[p].upserted) = 1

\* C11 (amended). Such a run calls the embedding service exactly twice, once
\* for the guard's sample embedding and once for the chunk, and upserts
\* exactly once, one record.
C11_TwoEmbeddingCallsOneUpsert ==
    \A p \in Procs :
        SingleChunkRun(p) =>
            /\ run[p].embedCalls = 2
            /\ run[p].upserts = 1
            /\ Cardinality(run[p].upserted) = 1

\* C11 witness: the module-load seeding of a one-chunk directory has
\* upserted its record into the index that did not exist.
C11_Witness ==
    /\ SingleChunkRun("moduleLoad")
    /\ run["moduleLoad"].guard = "noindex"
    /\ Cardinality(index.records) = 1

Pipeline == <<"guard", "load", "chunk", "embed", "createIndex", "upsert">>

IsPrefix(s, t) == Len(s) <= Len(t) /\ s = SubSeq(t, 1, Len(s))

\* C12. Within one run the steps are issued in the order guard, load,
\* chunk, embed, createIndex, upsert, each at most once; when the upsert is
\* issued every chunk has its embedding and createIndex has completed; the
\* upsert completes at most once.
C12_PipelineOrder ==
    \A p \in Procs :
        /\ IsPrefix(run[p].trace, Pipeline)
        /\ run[p].upserts <= 1
        /\ pc[p] = "upsert" =>
              /\ Len(embeddings[p]) = Len(chunks[p])
              /\ run[p].creates = 1
        /\ run[p].upserts = 1 =>
              /\ run[p].trace = Pipeline
              /\ Len(run[p].vectors) = Len(run[p].chunked)
              /\ run[p].creates = 1

\* C12 witness: a run went through the whole pipeline and its upsert failed.
C12_Witness ==
    /\ run["moduleLoad"].trace = Pipeline
    /\ run["moduleLoad"].failedAt = "upsert"

\* The chunks of cs that come from the document of that source, in order.
RECURSIVE ChunksOf(_, _)
ChunksOf(cs, source) ==
    IF cs = <<>> THEN <<>>
    ELSE (IF Head(cs).source = source THEN <<Head(cs).text>> ELSE <<>>)
         \o ChunksOf(Tail(cs), source)

\* The first chunk followed by what each later chunk adds after its first
\* overlap characters.
RECURSIVE NonOverlapping(_, _)
NonOverlapping(texts, overlap) ==
    IF texts = <<>> THEN <<>>
    ELSE IF Len(texts) = 1 THEN texts[1]
    ELSE NonOverlapping(SubSeq(texts, 1, Len(texts) - 1), overlap)
         \o SubSeq(texts[Len(texts)], overlap + 1, Len(texts[Len(texts)]))

C14_ChunkedWithEffectiveConfig ==
    \A p \in Procs :
        \A i \in 1..Len(run[p].chunkArgs) :
            run[p].chunkArgs[i] = chunkingConfig(run[p].config)

\* C15. The upsert of a run over chunks c_0..c_(n-1) carries n records;
\* record i has id chunk-i, the vector the embedder returned for c_i's
\* text, content c_i's text and source c_i's source; the ids are pairwise
\* distinct; the chunks are the loaded documents' chunks in loader order.
C15_RecordsFollowChunkOrder ==
    \A p \in Procs :
        run[p].upserts > 0 =>
            LET cs == run[p].chunked
                R  == run[p].upserted
            IN  /\ Cardinality(R) = Len(cs)
                /\ Cardinality({r.id : r \in R}) = Len(cs)
                /\ Len(run[p].vectors) = Len(cs)
                /\ \A i \in 1..Len(cs) :
                      /\ run[p].vectors[i].of = cs[i].text
                      /\ \E r \in R :
                            /\ r.id = <<"chunk", i - 1>>
                            /\ r.vector = run[p].vectors[i]
                            /\ r.metadata.content = cs[i].text
                            /\ r.metadata.source = cs[i].source
                /\ \A i, j \in 1..Len(cs) :
                      (i < j /\ cs[i].source # cs[j].source) =>
                          \E a, b \in 1..Len(FileOrder) :
                              a < b /\ FileOrder[a] = cs[i].source /\ FileOrder[b] = cs[j].source

\* C15 witness: a run upserted the chunks of two documents, three records.
C15_Witness ==
    /\ run["moduleLoad"].upserts = 1
    /\ Cardinality(run["moduleLoad"].upserted) = 3

\* C16. Every vector of the index has the index's dimension, which is the
\* embedding model's output width; a run upserts no vector of another
\* length than the dimension it passed to createIndex.
C16_DimensionInvariant ==
    /\ index.exists =>
          /\ index.dimension = EmbeddingDimension
          /\ \A r \in index.records : r.vector.dim = index.dimension
    /\ \A p \in Procs :
          /\ run[p].creates > 0 => run[p].createdDim = EmbeddingDimension
          /\ \A r \in run[p].upserted : r.vector.dim = run[p].createdDim

\* C16 witness: the index holds the vectors of a completed seeding.
C16_Witness ==
    /\ index.exists
    /\ index.records # {}
    /\ run["moduleLoad"].upserts = 1

MessagesOf(topic) ==
    {m \in storage.messages : /\ m.threadId = KNOWLEDGE_BASE_THREAD_ID
                              /\ m.id = safeId(topic)
                              /\ m.content = TopicContent(topic, DocContent(topic))}

\* C18 (as claimed). After a server start whose seedKnowledgeBase ran to
\* its end without an error, storage holds the knowledge thread and exactly
\* one message per knowledge document; a run that found the thread did no
\* saveThread and no saveMessage.
C18_ThreadSeedingIdempotent ==
    (kpc = "idle" /\ krun.ended /\ ~krun.failed) =>
        /\ KNOWLEDGE_BASE_THREAD_ID \in storage.threads
        /\ \A i \in 1..Len(KNOWLEDGE_DOCUMENTS) :
              Cardinality(MessagesOf(KNOWLEDGE_DOCUMENTS[i])) = 1
        /\ krun.found => (krun.saveThreads = 0 /\ krun.saveMessages = 0)

Abs(x) == IF x < 0 THEN 0 - x ELSE x

C20_ProvidedTimestampIsUsed ==
    tzc.stage = "done" =>
        /\ tzc.provided => tzc.date = tzc.utcTimestamp
        /\ ~tzc.provided => tzc.date = tzc.now


WfFullTrace ==
    <<<<"start", StepIds[1]>>, <<"end", StepIds[1]>>, <<"start", StepIds[2]>>,
      <<"end", StepIds[2]>>, <<"start", StepIds[3]>>, <<"end", StepIds[3]>>>>

\* C21. The steps of a run execute in the order query-knowledge-base,
\* get-metadata, synthesize-report, each starting only after the previous one
\* completed; the state of a run that completes holds researchStartTime,
\* metadataAddedTime and reportCompletedTime, set in that order; after a step
\* has thrown no later step executes.
C21_StepsInOrderAndStateComplete ==
    /\ IsPrefix(wf.trace, WfFullTrace)
    /\ wf.status = "success" =>
          /\ wf.trace = WfFullTrace
          /\ DOMAIN wf.state =
                {"researchStartTime", "metadataAddedTime", "reportCompletedTime"}
          /\ wf.sets = <<"researchStartTime", "metadataAddedTime", "reportCompletedTime">>
    /\ wf.status = "failed" /\ wf.trace # <<>> =>
          wf.trace[Len(wf.trace)][1] = "start"

C21_Witness == wf.status = "success" /\ cli.stage = "done"

\* C22. The workflow command uses the parsed --input whenever --input is
\* given, otherwise {topic, maxResults} when --topic is given; when --input
\* is not valid JSON, or neither option is given, it exits with code 1 and
\* no run is created or started.
C22_InputSelection ==
    cli.stage # "idle" =>
        /\ cli.input.given /\ JsonValid(cli.input.value) =>
              cli.source = "input" /\ cli.inputData = JsonParse(cli.input.value)
        /\ ~cli.input.given /\ cli.topic.given =>
              /\ cli.source = "topic"
              /\ cli.inputData = [topic |-> cli.topic.value,
                                  maxResults |-> parseInt(cli.maxResults)]
        /\ (cli.input.given /\ ~JsonValid(cli.input.value))
              \/ (~cli.input.given /\ ~cli.topic.given) =>
              /\ cli.stage = "exited"
              /\ cli.exitCode = 1
              /\ cli.runsCreated = 0
              /\ cli.runsStarted = 0
              /\ wf = NoWf

\* C23 (as claimed). The guard's error branch leads into seeding only when
\* the index does not exist: a run whose guard raised while the index
\* existed issues no load, createIndex or upsert.
C23_GuardErrorStopsTheRun ==
    \A p \in Procs :
        run[p].guard = "error" /\ run[p].guardExists =>
            /\ run[p].creates = 0
            /\ run[p].upserts = 0
            /\ IsPrefix(run[p].trace, <<"guard">>)

\* C24 (as claimed). Whenever a run of seedKnowledgeBase finds the knowledge
\* thread and reports the knowledge base as already seeded, storage holds a
\* message for every knowledge document.
C24_FoundThreadMeansAllDocuments ==
    krun.found =>
        \A i \in 1..Len(KNOWLEDGE_DOCUMENTS) : MessagesOf(KNOWLEDGE_DOCUMENTS[i]) # {}

\* C25 (as claimed). A run that finds no documents returns without
\* embedding chunks, without createIndex and upsert, and leaves the index as
\* it found it; the next invocation, made after documents were added, seeds
\* them.
C25_EmptyDirectoryThenSeeded ==
    \A p \in Procs :
        /\ FoundNone(run[p]) =>
              /\ "embed" \notin Range(run[p].trace)
              /\ run[p].creates = 0
              /\ run[p].upserts = 0
              /\ pc[p] = "idle" => index.records = run[p].startRecords
        /\ (run[p].afterEmpty /\ pc[p] = "idle" /\ run[p].outcome = "returned"
            /\ ~run[p].stale) =>
              \A i \in 1..Len(DirChunks(dir)) : Holds(index.records, DirChunks(dir)[i])

\* C25, for runs that began on an index without records: there the property
\* holds.
C25_OnEmptyIndex ==
    \A p \in Procs :
        /\ FoundNone(run[p]) =>
              /\ "embed" \notin Range(run[p].trace)
              /\ run[p].creates = 0
              /\ run[p].upserts = 0
              /\ pc[p] = "idle" => index.records = run[p].startRecords
        /\ (run[p].afterEmpty /\ pc[p] = "idle" /\ run[p].outcome = "returned"
            /\ ~run[p].stale /\ run[p].startRecords = {}) =>
              \A i \in 1..Len(DirChunks(dir)) : Holds(index.records, DirChunks(dir)[i])

\* C26 (as claimed). A knowledge-tool call whose filter is not valid JSON
\* fails with "Invalid JSON in filter" and issues no vector query; with the
\* filter absent or empty no filter is passed to the vector query.
C26_InvalidFilterRaisesInvalidJson ==
    /\ (qpc = "idle" /\ qInput.kind = "tool" /\ qInput.filter = FilterBad) =>
          /\ qOutcome = "threw"
          /\ qError = "Invalid JSON in filter"
          /\ queryLog = <<>>
    /\ (qInput.kind = "tool" /\ qInput.filter \in {FilterAbsent, FilterEmpty}) =>
          \A i \in 1..Len(queryLog) : queryLog[i].filter = NoFilter

\* C26 (amended). Such a call fails and issues no vector query; its error
\* is "Invalid JSON in filter" unless the embedding of the query text, which
\* comes first, has failed; with the filter absent or empty no filter is
\* passed to the vector query.
C26_InvalidFilterFailsWithoutQuery ==
    /\ (qpc = "idle" /\ qInput.kind = "tool" /\ qInput.filter = FilterBad) =>
          /\ qOutcome = "threw"
          /\ qError \in {"Invalid JSON in filter", "embed"}
          /\ queryLog = <<>>
    /\ (qpc # "embed" /\ qInput.kind = "tool" /\ qInput.filter = FilterBad
        /\ qError # "embed") =>
          qpc = "idle" /\ qError = "Invalid JSON in filter"
    /\ (qInput.kind = "tool" /\ qInput.filter \in {FilterAbsent, FilterEmpty}) =>
          \A i \in 1..Len(queryLog) : queryLog[i].filter = NoFilter

C26_Witness ==
    /\ qpc = "idle"
    /\ qInput.kind = "tool"
    /\ qInput.filter = FilterBad
    /\ qError = "Invalid JSON in filter"
    /\ index.records # {}

\* C27. Every add-knowledge call returns {success, message} and never
\* raises; a call made without agent memory, or whose save fails, returns
\* success = false with a message that names the failure and stores
\* nothing; a call returns success = true only when its message has been
\* saved to the knowledge thread.
C27_AddKnowledgeNeverRaises ==
    [][adds' = adds + 1 =>
          /\ lastAdd'.called
          /\ lastAdd'.outcome = "returned"
          /\ ~lastAdd'.success =>
                /\ storage' = storage
                /\ lastAdd'.message[1] = "Failed to add knowledge"
                /\ lastAdd'.message[2] \in AddFailures
          /\ lastAdd'.success =>
                \E m \in storage'.messages \ storage.messages :
                    /\ m.threadId = KNOWLEDGE_BASE_THREAD_ID
                    /\ m.role = "system"]_vars

\* C27 witness: a call without agent memory has returned success = false
\* after an earlier call had saved its message.
C27_Witness ==
    /\ adds = 2
    /\ lastAdd.outcome = "returned"
    /\ ~lastAdd.success
    /\ lastAdd.message = <<"Failed to add knowledge",
                           "This tool requires an agent with memory configured">>
    /\ \E m \in storage.messages : m.id = GeneratedId(1)

\* C28. loadPersona returns, for every persona name and every file, a
\* persona with the four fields name, tone, verbosity and systemPrompt and
\* never raises; when the file cannot be read or the parsed object lacks a
\* field the result is the default persona.
C28_LoadPersonaIsTotal ==
    pers.stage = "done" =>
        /\ DOMAIN pers.result = PersonaFields
        /\ (~pers.readable \/ ~PersonaSchemaOK(pers.parsed)) =>
              pers.result = DefaultPersona

\* C28 witness: a file with a key after the multi-line block was read and
\* the default persona returned.
C28_Witness ==
    /\ pers.stage = "done"
    /\ pers.readable
    /\ Len(pers.lines) = MaxLines
    /\ "name" \in DOMAIN pers.parsed
    /\ ~PersonaSchemaOK(pers.parsed)
    /\ pers.result = DefaultPersona

\* C29 (as claimed). Every top-level key: value line of a persona file
\* contributes its key, with its value, to the parsed persona, wherever it
\* stands relative to a multi-line block.
C29_EveryKeyIsParsed ==
    (pers.stage = "done" /\ pers.readable) =>
        \A i \in 1..Len(pers.lines) :
            pers.lines[i].kind = "keyValue" =>
                /\ pers.lines[i].key \in DOMAIN pers.parsed
                /\ pers.parsed[pers.lines[i].key] = <<Unquote(pers.lines[i].text)>>

\* C30 (as claimed). When a helper is called with a semanticRecall object,
\* the semanticRecall passed to Memory has the caller's value for every
\* field the caller gave and the helper's default for every other field.
C30_RecallOverridesMergedOverDefaults ==
    (mem.stage = "done" /\ mem.recall.given /\ mem.recall.object) =>
        /\ mem.options.semanticRecall.object
        /\ mem.options.semanticRecall.fields =
              ObjectSpread(RecallDefaults(mem.helper), mem.recall.fields)

====
